---- MODULE Spec2Model ----
(***************************************************************************)
(* A model of src/app.py: the webhook handler, the background job          *)
(* (generate -> decode attachments -> publish -> notify), the repository   *)
(* publisher and the retrying notifier, together with the external         *)
(* services they call (text generation, repository hosting, callback).     *)
(*                                                                         *)
(* Conventions                                                             *)
(*   - A text (a Python str that the program builds or inspects) is a      *)
(*     sequence of strings: input-dependent text is one character per      *)
(*     element, a fixed template fragment is one element.                  *)
(*   - An optional value is None == <<>> or Some(v) == <<v>>.              *)
(*   - A Python dict is a sequence of <<key, value>> pairs in insertion    *)
(*     order (dicts iterate in insertion order).                           *)
(*   - Every external call is one action whose outcome is drawn from the   *)
(*     outcomes the call can have (an answer, or an exception of one of    *)
(*     the classes the code distinguishes).                                *)
(***************************************************************************)
EXTENDS Naturals, Sequences, FiniteSets, TLC

\* ------------------------------------------------------------------ bounds

\* The longest list of attachments a request carries.
MaxAttachments == 2

\* How many times in sequence the publisher is called in SpecPublish.
MaxCalls == 2

\* The longest list of attachments a request carries in SpecLive.
MaxLiveAttachments == 1

\* The most pieces (whitespace, fences, markup) an answer of the generation
\* service is made of in SpecClean.
MaxPieces == 3

\* ------------------------------------------------------- optional values

None == <<>>

Some(v) == <<v>>

\* ----------------------------------------------------------------- dicts

DictKeys(d) == {d[i][1] : i \in 1..Len(d)}

DictHas(d, k) == \E i \in 1..Len(d) : d[i][1] = k

DictGet(d, k) == d[CHOOSE i \in 1..Len(d) : d[i][1] = k][2]

\* d[k] = v: an existing key keeps its place, a new key goes last.
DictSet(d, k, v) ==
    IF DictHas(d, k)
    THEN [i \in 1..Len(d) |-> IF d[i][1] = k THEN <<k, v>> ELSE d[i]]
    ELSE Append(d, <<k, v>>)

\* ------------------------------------------------------------------ text

\* The printable ASCII characters, code points 32..126 in order.  The grave
\* accent (code point 96) cannot be written in a string of this language and
\* goes by its name, "U+96".
Ascii ==
    << " ", "!", "\"", "#", "$", "%", "&", "'", "(", ")", "*", "+", ",", "-",
       ".", "/", "0", "1", "2", "3", "4", "5", "6", "7", "8", "9", ":", ";",
       "<", "=", ">", "?", "@", "A", "B", "C", "D", "E", "F", "G", "H", "I",
       "J", "K", "L", "M", "N", "O", "P", "Q", "R", "S", "T", "U", "V", "W",
       "X", "Y", "Z", "[", "\\", "]", "^", "_", "U+96", "a", "b", "c", "d", "e",
       "f", "g", "h", "i", "j", "k", "l", "m", "n", "o", "p", "q", "r", "s",
       "t", "u", "v", "w", "x", "y", "z", "{", "|", "}", "~" >>

\* The character of a code point: itself when printable ASCII, else a name.
Chr(cp) == IF cp \in 32..126 THEN Ascii[cp - 31] ELSE "U+" \o ToString(cp)

\* What str.strip() removes.
Whitespace ==
    {" ", "U+9", "U+10", "U+11", "U+12", "U+13", "U+28", "U+29", "U+30", "U+31",
     "U+133", "U+160", "U+5760", "U+8232", "U+8233", "U+8239", "U+8287",
     "U+12288"} \cup {"U+" \o ToString(cp) : cp \in 8192..8202}

StartsWith(t, p) == Len(t) >= Len(p) /\ SubSeq(t, 1, Len(p)) = p

EndsWith(t, p) == Len(t) >= Len(p) /\ SubSeq(t, Len(t) - Len(p) + 1, Len(t)) = p

RECURSIVE LStrip(_)
LStrip(t) == IF t # <<>> /\ Head(t) \in Whitespace THEN LStrip(Tail(t)) ELSE t

RECURSIVE RStrip(_)
RStrip(t) ==
    IF t # <<>> /\ t[Len(t)] \in Whitespace
    THEN RStrip(SubSeq(t, 1, Len(t) - 1))
    ELSE t

Strip(t) == RStrip(LStrip(t))

\* ------------------------------------------------------ decode_attachment

\* The base-64 alphabet; a character's value is its index less one.
B64Alphabet ==
    << "A", "B", "C", "D", "E", "F", "G", "H", "I", "J", "K", "L", "M", "N",
       "O", "P", "Q", "R", "S", "T", "U", "V", "W", "X", "Y", "Z", "a", "b",
       "c", "d", "e", "f", "g", "h", "i", "j", "k", "l", "m", "n", "o", "p",
       "q", "r", "s", "t", "u", "v", "w", "x", "y", "z", "0", "1", "2", "3",
       "4", "5", "6", "7", "8", "9", "+", "/" >>

IsB64Char(c) == \E i \in 1..64 : B64Alphabet[i] = c

B64Val(c) == (CHOOSE i \in 1..64 : B64Alphabet[i] = c) - 1

\* base64.b64decode(s) with its default validate=False: characters outside
\* the alphabet are discarded, a complete run of padding ends the input, and
\* data that stops inside a quad is an error (None).  The state is the
\* position in the quad, the bits left over, the padding seen, the bytes.
RECURSIVE B64Scan(_, _, _, _, _)
B64Scan(s, quad_pos, leftchar, pads, out) ==
    IF s = <<>>
    THEN IF quad_pos # 0 THEN None ELSE Some(out)
    ELSE LET c == Head(s) IN
         IF c = "="
         THEN IF quad_pos >= 2 /\ quad_pos + pads + 1 >= 4
              THEN Some(out)
              ELSE B64Scan(Tail(s), quad_pos, leftchar,
                           IF quad_pos >= 2 THEN pads + 1 ELSE pads, out)
         ELSE IF ~IsB64Char(c)
         THEN B64Scan(Tail(s), quad_pos, leftchar, pads, out)
         ELSE LET v == B64Val(c) IN
              CASE quad_pos = 0 -> B64Scan(Tail(s), 1, v, 0, out)
                [] quad_pos = 1 ->
                     B64Scan(Tail(s), 2, v % 16, 0,
                             Append(out, leftchar * 4 + v \div 16))
                [] quad_pos = 2 ->
                     B64Scan(Tail(s), 3, v % 4, 0,
                             Append(out, leftchar * 16 + v \div 4))
                [] quad_pos = 3 ->
                     B64Scan(Tail(s), 0, 0, 0, Append(out, leftchar * 64 + v))

b64decode(s) == B64Scan(s, 0, 0, 0, <<>>)

IsCont(b) == b \in 128..191

\* bytes.decode('utf-8'), strict: the code points of a well-formed byte
\* sequence, None for any ill-formed one (overlong forms, surrogates and
\* values above U+10FFFF included).
RECURSIVE Utf8Scan(_, _)
Utf8Scan(b, out) ==
    IF b = <<>> THEN Some(out)
    ELSE LET b1 == b[1]
             n  == Len(b)
         IN
         IF b1 < 128
         THEN Utf8Scan(Tail(b), Append(out, b1))
         ELSE IF b1 \in 194..223
         THEN IF n >= 2 /\ IsCont(b[2])
              THEN Utf8Scan(SubSeq(b, 3, n),
                            Append(out, (b1 - 192) * 64 + (b[2] - 128)))
              ELSE None
         ELSE IF b1 \in 224..239
         THEN IF /\ n >= 3
                 /\ IsCont(b[2])
                 /\ IsCont(b[3])
                 /\ (b1 = 224 => b[2] >= 160)
                 /\ (b1 = 237 => b[2] <= 159)
              THEN Utf8Scan(SubSeq(b, 4, n),
                            Append(out, (b1 - 224) * 4096 + (b[2] - 128) * 64
                                        + (b[3] - 128)))
              ELSE None
         ELSE IF b1 \in 240..244
         THEN IF /\ n >= 4
                 /\ IsCont(b[2])
                 /\ IsCont(b[3])
                 /\ IsCont(b[4])
                 /\ (b1 = 240 => b[2] >= 144)
                 /\ (b1 = 244 => b[2] <= 143)
              THEN Utf8Scan(SubSeq(b, 5, n),
                            Append(out, (b1 - 240) * 262144
                                        + (b[2] - 128) * 4096
                                        + (b[3] - 128) * 64 + (b[4] - 128)))
              ELSE None
         ELSE None

utf8decode(b) ==
    LET r == Utf8Scan(b, <<>>) IN
    IF r = None THEN None ELSE Some([i \in 1..Len(r[1]) |-> Chr(r[1][i])])

\* str.split(',', 1): the place of the first comma, 0 when there is none.
FirstComma(u) ==
    IF \E i \in 1..Len(u) : u[i] = ","
    THEN CHOOSE i \in 1..Len(u) :
            u[i] = "," /\ \A j \in 1..(i - 1) : u[j] # ","
    ELSE 0

\* decode_attachment: the text of a data URI, None on any exception (no
\* 'url' key, no comma to unpack two parts, base-64 error, ill-formed UTF-8).
decode_attachment(attachment) ==
    IF "url" \notin DOMAIN attachment THEN None
    ELSE LET u == attachment.url
             k == FirstComma(u)
         IN
         IF k = 0 THEN None
         ELSE LET raw == b64decode(SubSeq(u, k + 1, Len(u))) IN
              IF raw = None THEN None ELSE utf8decode(raw[1])

\* ------------------------------------------------------- the generated page

\* The three grave accents that open and close a code fence.
Fence == <<"U+96", "U+96", "U+96">>

FenceHtml == Fence \o <<"h", "t", "m", "l">>

\* The fences cut off first and the whitespace stripped last.
CleanGeneratedFenceFirst(content) ==
    LET opened == IF StartsWith(content, FenceHtml)
                  THEN SubSeq(content, 8, Len(content))
                  ELSE content
        closed == IF EndsWith(opened, Fence)
                  THEN SubSeq(opened, 1, Len(opened) - 3)
                  ELSE opened
    IN  Strip(closed)

\* Lines 158-162: strip(), then one leading fence-with-html and one trailing
\* fence are cut off, each only if present.
CleanGenerated(content) ==
    LET stripped == Strip(content)
        opened   == IF StartsWith(stripped, FenceHtml)
                    THEN SubSeq(stripped, 8, Len(stripped))
                    ELSE stripped
    IN  IF EndsWith(opened, Fence)
        THEN SubSeq(opened, 1, Len(opened) - 3)
        ELSE opened

\* ------------------------------------------------------------- fixed texts

MIT_LICENSE_TEXT == <<"\nMIT License\n\nCopyright (c) 2025\n...">>

\* Lines 171-187: the README template around the task name and the brief.
ReadmeContent(repo_name, brief) ==
    <<"\n        # Project: ">> \o repo_name
        \o <<"\n\n        ## Summary\n        ... in response to the brief:\n        \"">>
        \o brief
        \o <<"\"\n\n        ## Usage ... ## Code Explanation ... ## License ...\n">>

\* Line 170.
CommitMessage(round, brief) ==
    <<"Round ", ToString(round), ": ">> \o brief

IndexHtml == <<"index.html">>

ReadmeMd == <<"README.md">>

LicensePath == <<"LICENSE">>

\* Python truthiness of an optional text: neither None nor the empty string.
Truthy(opt) == opt # None /\ opt[1] # <<>>

\* ------------------------------------------------------------ the provider

\* The login of the account the token belongs to.
Login == <<"octo">>

RepoHtmlUrl(repo_name) == <<"https://github.com/">> \o Login \o <<"/">> \o repo_name

\* Line 81.
PagesUrl(repo_name) ==
    <<"https://">> \o Login \o <<".github.io/">> \o repo_name \o <<"/">>

\* The id of the n-th commit of a branch.
Sha(n) == <<"sha-" \o ToString(n)>>

\* What auto_init=True puts into a new repository.
AutoInitReadme == <<"# ">>

\* A function as a set of places: f with p mapped to v.
Put(f, p, v) == (p :> v) @@ f

\* ------------------------------------------------ answers of the services

Status(code) == [kind |-> "status", status |-> code]

\* An exception of requests.exceptions.RequestException (timeouts included).
RequestException == [kind |-> "RequestException", status |-> 0]

\* An exception that is not a RequestException.
OtherException == [kind |-> "Exception", status |-> 0]

\* What one requests.post to the callback URL can end in.
PostOutcomes == {Status(200), Status(201), Status(500), RequestException, OtherException}

\* The attempts notify_grader makes at most (line 103).
MaxAttempts == 4

\* ------------------------------------------------------------------ inputs

Secrets == {"s3cret", "guess"}

Tasks == {<<"demo-site">>}

Briefs == {<<"a calculator">>}

\* Data URIs, one character per element.
UrlHi == <<"d", "a", "t", "a", ":", ",", "a", "G", "k", "=">>

UrlH == <<"d", "a", "t", "a", ":", ",", "a", "A", "=", "=">>

UrlEmpty == <<"d", "a", "t", "a", ":", ",">>

UrlNoComma == <<"d", "a", "t", "a", ":", "a", "G", "k", "=">>

UrlBadPadding == <<"d", "a", "t", "a", ":", ",", "a", "G", "k">>

UrlStrayChar == <<"d", "a", "t", "a", ":", ",", "a", "!", "G", "k", "=">>

UrlNotUtf8 == <<"d", "a", "t", "a", ":", ",", "/", "w", "=", "=">>

Attachments ==
    { [name |-> <<"data.csv">>, url |-> UrlHi],
      [name |-> <<"data.csv">>, url |-> UrlEmpty],
      [name |-> <<"data.csv">>, url |-> UrlStrayChar],
      [name |-> <<"notes.txt">>, url |-> UrlNoComma],
      [name |-> <<"notes.txt">>, url |-> UrlBadPadding],
      [name |-> <<"notes.txt">>, url |-> UrlNotUtf8],
      [name |-> <<"index.html">>, url |-> UrlH] }

AttachmentLists ==
    UNION {[1..n -> Attachments] : n \in 0..MaxAttachments}

Requests ==
    [ email : {<<"student@example.com">>},
      secret : Secrets,
      task : Tasks,
      round : {1},
      nonce : {<<"nonce-1">>},
      brief : Briefs,
      evaluation_url : {<<"https://grader.example/notify">>},
      attachments : AttachmentLists ]

\* What the generation service may put into choices[0].message.content.
GenContents ==
    { <<"<", "p", ">", "x", "<", "/", "p", ">">>,
      <<" ">> \o FenceHtml \o <<"<", "p", ">", "x", "<", "/", "p", ">">> \o Fence
          \o <<"U+10">> }

\* What the call of the generation service can end in: an answer with a status
\* and a body (the content, None when the body holds no usable content), or an
\* exception of requests.post.
GenOutcomes ==
    {[kind |-> "status", status |-> 200, content |-> Some(c)] : c \in GenContents}
    \cup {[kind |-> "status", status |-> 202, content |-> Some(c)] : c \in GenContents}
    \cup {[kind |-> "status", status |-> 200, content |-> None],
          [kind |-> "status", status |-> 500, content |-> None],
          [kind |-> "Exception", status |-> 0, content |-> None]}

\* The files of a repository the account holds before the job.
OldFiles ==
    Put(Put(Put(<<>>, IndexHtml, <<"old page">>), ReadmeMd, <<"old readme">>),
        LicensePath, MIT_LICENSE_TEXT)

\* The repositories the account may hold before the job: a function from
\* names to [files, head, tree, pages], files a function from paths to the
\* contents at the tip of main, head the number of the tip commit, tree the
\* files at each commit known.
OldRepo ==
    [files |-> OldFiles,
     head |-> 4,
     tree |-> Put(<<>>, 4, OldFiles),
     pages |-> TRUE]

InitialAccounts == {<<>>, Put(<<>>, <<"demo-site">>, OldRepo)}

\* ------------------------------------------------------------------- state

VARIABLES
    MY_SECRET,            \* line 22: Some(secret), None when not configured
    request,              \* the inbound TaskRequest
    response,             \* what handle_task_request returned, None before
    background_tasks,     \* the tasks added by background_tasks.add_task
    job,                  \* process_task_in_background: its place and locals
    notification_payload, \* the dict the job builds and notify_grader sends
    pub,                  \* create_or_update_repo: its place and locals
    parked,               \* the same of a second job's thread, while it does not run
    ntf,                  \* notify_grader: its place and locals
    github,               \* the account's repositories at the provider
    github0,              \* the account's repositories at the start
    log,                  \* the calls made to the generation and hosting services
    notify_calls,         \* the payload at each call of notify_grader
    timeline,             \* the POSTs and the sleeps of notify_grader, in order
    pub_history           \* the calls of create_or_update_repo that returned

vars ==
    << MY_SECRET, request, response, background_tasks, job, notification_payload,
       pub, parked, ntf, github, github0, log, notify_calls, timeline, pub_history >>

JobIdle ==
    [pc |-> "idle", content |-> None, generated_code |-> None,
     files_to_commit |-> <<>>, i |-> 0]

PubIdle ==
    [pc |-> "idle", call |-> 0, repo_name |-> <<>>, files |-> <<>>,
     commit_message |-> <<>>, i |-> 0, file_sha |-> None,
     result |-> <<None, None, None>>]

NtfIdle ==
    [pc |-> "idle", call |-> 0, site |-> "none", url |-> <<>>, attempt |-> 0,
     delay |-> 1, last |-> Status(0)]

Init ==
    /\ MY_SECRET \in {None, Some("s3cret")}
    /\ request \in Requests
    /\ response = None
    /\ background_tasks = <<>>
    /\ job = JobIdle
    /\ notification_payload = <<>>
    /\ pub = PubIdle
    /\ parked = PubIdle
    /\ ntf = NtfIdle
    /\ github \in InitialAccounts
    /\ github0 = github
    /\ log = <<>>
    /\ notify_calls = <<>>
    /\ timeline = <<>>
    /\ pub_history = <<>>

\* ------------------------------------------------------ handle_task_request

\* No check at all when no secret is configured.
SecretMismatchIfConfigured(secret, configured) ==
    configured # None /\ Some(secret) # configured

\* Line 119: the request's secret, a string, is not the configured one (a
\* string, or None when PROJECT_SECRET is not set).
SecretMismatch(secret, configured) == Some(secret) # configured

\* Lines 117-124.
handle_task_request ==
    /\ response = None
    /\ \/ /\ SecretMismatch(request.secret, MY_SECRET)
          /\ response' = Some(<< <<"status", "error">>, <<"message", "Invalid secret">> >>)
          /\ UNCHANGED background_tasks
       \/ /\ ~SecretMismatch(request.secret, MY_SECRET)
          /\ background_tasks' = Append(background_tasks, request)
          /\ response' = Some(<< <<"status", "Request received. Processing in background.">> >>)
    /\ UNCHANGED << MY_SECRET, github0, parked, request, job, notification_payload, pub, ntf, github,
                    log, notify_calls, timeline, pub_history >>

\* ------------------------------------------------------------ notify_grader

\* Line 166: the error message of a failed generation.
GenerationFailed(cause) == <<"LLM generation failed:", " ">> \o cause

\* Line 211: the error message of a failed deployment.
DeploymentFailed(cause) == <<"Deployment failed:", " ">> \o cause

\* The delay grown by one instead of doubled.
NextDelayPlusOne(delay) == delay + 1

\* Line 114.
NextDelay(delay) == delay * 2

\* The call of notify_grader(url, payload, error_message), lines 98-102: the
\* error message, when there is one, goes into the caller's dict under
\* "error"; then the first attempt is due.
EnterNotify(site, payload, error_message) ==
    LET merged == IF Truthy(error_message)
                  THEN DictSet(payload, "error", error_message[1])
                  ELSE payload
    IN  /\ notification_payload' = merged
        /\ notify_calls' = Append(notify_calls, merged)
        /\ ntf' = [pc |-> "post", call |-> Len(notify_calls) + 1, site |-> site,
                   url |-> background_tasks[1].evaluation_url, attempt |-> 0,
                   delay |-> 1, last |-> Status(0)]

\* Any 2xx answer taken for a delivery.
DeliveredAny2xx(o) == o.kind = "status" /\ o.status \in 200..299

\* Line 106: the one answer that counts as delivered.
Delivered(o) == o.kind = "status" /\ o.status = 200

\* Lines 109-112: an answer or exception after which the loop goes on.
FailedAttempt(o) ==
    \/ o.kind = "status" /\ o.status # 200
    \/ o.kind = "RequestException"

\* The job left waiting after notify_grader returns.
AfterNotifyWaits == "notifying"

\* Where the job goes when notify_grader returns: line 167 returns, lines 208
\* and 211 fall through to line 212.
AfterNotify == "done"

\* Lines 105-112: one POST of the payload and what its outcome leads to.
NotifyPost ==
    /\ ntf.pc = "post"
    /\ \E o \in PostOutcomes :
        /\ timeline' = Append(timeline,
                              [call |-> ntf.call, ev |-> "post",
                               payload |-> notification_payload,
                               result |-> IF Delivered(o) THEN "delivered"
                                          ELSE IF FailedAttempt(o) THEN "failed"
                                          ELSE "raised",
                               delay |-> 0])
        /\ \/ /\ Delivered(o)
              /\ ntf' = [ntf EXCEPT !.pc = "idle", !.last = o]
              /\ job' = [job EXCEPT !.pc = AfterNotify]
              /\ UNCHANGED << notification_payload, notify_calls >>
           \/ /\ FailedAttempt(o)
              /\ ntf' = [ntf EXCEPT !.pc = "sleep", !.last = o]
              /\ UNCHANGED << job, notification_payload, notify_calls >>
           \* An exception line 111 does not catch leaves notify_grader.  Raised
           \* by the call of line 208 it is caught at line 209, and line 211
           \* calls notify_grader again.
           \/ /\ ~Delivered(o) /\ ~FailedAttempt(o)
              /\ ntf.site = "success"
              /\ EnterNotify("deploy_error", notification_payload,
                             Some(DeploymentFailed(<<"error in requests.post">>)))
              /\ UNCHANGED job
           \* Raised by the call of line 166 or 211 it leaves the job.
           \/ /\ ~Delivered(o) /\ ~FailedAttempt(o)
              /\ ntf.site # "success"
              /\ ntf' = [ntf EXCEPT !.pc = "idle", !.last = o]
              /\ job' = [job EXCEPT !.pc = "crashed"]
              /\ UNCHANGED << notification_payload, notify_calls >>
    /\ UNCHANGED << MY_SECRET, github0, parked, request, response, background_tasks, pub, github, log,
                    pub_history >>

\* Lines 113-115 and the loop's test: sleep, double the delay, and attempt
\* again while fewer than MaxAttempts attempts were made.
NotifySleep ==
    /\ ntf.pc = "sleep"
    /\ timeline' = Append(timeline,
                          [call |-> ntf.call, ev |-> "sleep", payload |-> <<>>,
                           result |-> "", delay |-> ntf.delay])
    /\ \/ /\ ntf.attempt + 1 < MaxAttempts
          /\ ntf' = [ntf EXCEPT !.pc = "post", !.attempt = @ + 1, !.delay = NextDelay(@),
                                !.last = Status(0)]
          /\ UNCHANGED job
       \/ /\ ntf.attempt + 1 >= MaxAttempts
          /\ ntf' = [ntf EXCEPT !.pc = "idle", !.attempt = @ + 1, !.delay = NextDelay(@),
                                !.last = Status(0)]
          /\ job' = [job EXCEPT !.pc = AfterNotify]
    /\ UNCHANGED << MY_SECRET, github0, parked, request, response, background_tasks,
                    notification_payload, pub, github, log, notify_calls,
                    pub_history >>

\* ----------------------------------------------- process_task_in_background

\* Lines 126-134: the task the handler added starts.
JobStart ==
    /\ job.pc = "idle"
    /\ background_tasks # <<>>
    /\ job' = [job EXCEPT !.pc = "generate"]
    /\ notification_payload' =
           << <<"email", background_tasks[1].email>>,
              <<"task", background_tasks[1].task>>,
              <<"round", background_tasks[1].round>>,
              <<"nonce", background_tasks[1].nonce>> >>
    /\ UNCHANGED << MY_SECRET, github0, parked, request, response, background_tasks, pub, ntf, github,
                    log, notify_calls, timeline, pub_history >>

\* Any 2xx answer with content taken for a success.
GenerationSucceedsAny2xx(o) ==
    o.kind = "status" /\ o.status \in 200..299 /\ o.content # None

\* Lines 155-158: the outcomes from which the job goes on to publish.
GenerationSucceeds(o) == o.kind = "status" /\ o.status = 200 /\ o.content # None

\* The answer as the log keeps it: its kind, its status, whether it has content.
GenAnswer(o) ==
    <<o.kind, ToString(o.status), IF o.content = None THEN "no content" ELSE "content">>

\* The text of the exception a failed generation raises.
GenCause(o) ==
    IF o.kind = "status" /\ o.status # 200
    THEN <<"AI Pipe API Error: ", ToString(o.status), " - ", "body">>
    ELSE IF o.kind = "status" THEN <<"unusable response body">>
    ELSE <<"error in requests.post">>

\* Lines 135-167: the call of the generation service, answered by one of the
\* given outcomes.  On success the content of the answer is cleaned and kept;
\* on any exception the grader is notified and the job ends.
GenerateFrom(outcomes) ==
    /\ job.pc = "generate"
    /\ \E o \in outcomes :
        /\ log' = Append(log, [call |-> 0, op |-> "generate", arg |-> GenAnswer(o)])
        /\ \/ /\ GenerationSucceeds(o)
              /\ job' = [job EXCEPT !.pc = "build",
                                    !.content = o.content,
                                    !.generated_code = Some(CleanGenerated(o.content[1]))]
              /\ UNCHANGED << notification_payload, notify_calls, ntf >>
           \/ /\ ~GenerationSucceeds(o)
              /\ job' = [job EXCEPT !.pc = "notifying"]
              /\ EnterNotify("generation", notification_payload,
                             Some(GenerationFailed(GenCause(o))))
    /\ UNCHANGED << MY_SECRET, github0, parked, request, response, background_tasks, pub, github,
                    timeline, pub_history >>

Generate == GenerateFrom(GenOutcomes)

\* Lines 168-192: the three fixed files.  The answer of the generation service
\* is not read again.
BuildFiles ==
    /\ job.pc = "build"
    /\ job' = [job EXCEPT
                 !.pc = "attach",
                 !.content = None,
                 !.i = 1,
                 !.files_to_commit =
                     << <<IndexHtml, job.generated_code[1]>>,
                        <<ReadmeMd, ReadmeContent(background_tasks[1].task,
                                                  background_tasks[1].brief)>>,
                        <<LicensePath, MIT_LICENSE_TEXT>> >>]
    /\ UNCHANGED << MY_SECRET, github0, parked, request, response, background_tasks,
                    notification_payload, pub, ntf, github, log, notify_calls,
                    timeline, pub_history >>

\* Lines 195-196: a decoded attachment is kept when its content is truthy.
AddAttachment(files, attachment) ==
    LET content == decode_attachment(attachment) IN
    IF Truthy(content) THEN DictSet(files, attachment.name, content[1]) ELSE files

\* Lines 193-197: one turn of the loop over the attachments.
DecodeStep ==
    /\ job.pc = "attach"
    /\ job.i <= Len(background_tasks[1].attachments)
    /\ job' = [job EXCEPT
                 !.i = @ + 1,
                 !.files_to_commit =
                     AddAttachment(@, background_tasks[1].attachments[job.i])]
    /\ UNCHANGED << MY_SECRET, github0, parked, request, response, background_tasks,
                    notification_payload, pub, ntf, github, log, notify_calls,
                    timeline, pub_history >>

\* The call of create_or_update_repo(repo_name, files_to_commit, commit_message).
EnterPublisher(repo_name, files, commit_message) ==
    pub' = [pc |-> "get_repo", call |-> pub.call + 1, repo_name |-> repo_name,
            files |-> files, commit_message |-> commit_message, i |-> 1,
            file_sha |-> None, result |-> <<None, None, None>>]

\* Lines 198-199: the loop is over, the publisher is called.
PushFiles ==
    /\ job.pc = "attach"
    /\ job.i > Len(background_tasks[1].attachments)
    /\ pub.pc = "idle"
    /\ job' = [job EXCEPT !.pc = "publishing"]
    /\ EnterPublisher(background_tasks[1].task, job.files_to_commit,
                      CommitMessage(background_tasks[1].round, background_tasks[1].brief))
    /\ UNCHANGED << MY_SECRET, github0, parked, request, response, background_tasks,
                    notification_payload, ntf, github, log, notify_calls, timeline,
                    pub_history >>

\* Line 200: the test the job makes of the publisher's results.
PublishFailed(result) == ~Truthy(result[1])

\* Lines 199-211: the publisher has returned.  Without a repository URL the
\* job raises and line 211 notifies the error; otherwise the three results go
\* into the payload and line 208 notifies.
Deployed ==
    /\ job.pc = "publishing"
    /\ pub.pc = "returned"
    /\ pub' = [pub EXCEPT !.pc = "idle"]
    /\ job' = [job EXCEPT !.pc = "notifying"]
    /\ \/ /\ PublishFailed(pub.result)
          /\ EnterNotify("deploy_error", notification_payload,
                         Some(DeploymentFailed(
                                  <<"Failed to create or update GitHub repository.">>)))
       \/ /\ ~PublishFailed(pub.result)
          /\ EnterNotify("success",
                         DictSet(DictSet(DictSet(notification_payload,
                                                 "repo_url", pub.result[1]),
                                         "commit_sha", pub.result[3]),
                                 "pages_url", pub.result[2]),
                         None)
    /\ UNCHANGED << MY_SECRET, github0, parked, request, response, background_tasks, github, log,
                    timeline, pub_history >>

\* ----------------------------------------------------- create_or_update_repo

\* What a call of the hosting library can end in: its answer, a
\* GithubException (the provider refused: not found, conflict, unprocessable,
\* server error), or another exception (the network).
LibOutcomes == {"ok", "GithubException", "Exception"}

\* What the POST that enables static hosting can end in: a status with a body
\* that is a JSON object or is not, or an exception of requests.post.
PagesOutcomes ==
    { [kind |-> "status", status |-> 201, json |-> TRUE],
      [kind |-> "status", status |-> 409, json |-> TRUE],
      [kind |-> "status", status |-> 502, json |-> FALSE],
      [kind |-> "Exception", status |-> 0, json |-> FALSE] }

PubLog(op, arg) == log' = Append(log, [call |-> pub.call, op |-> op, arg |-> arg])

\* The return of create_or_update_repo with the given results.
PubReturn(result) ==
    /\ pub' = [pub EXCEPT !.pc = "returned", !.result = result]
    /\ pub_history' = Append(pub_history,
                             [call |-> pub.call, repo_name |-> pub.repo_name,
                              files |-> pub.files, at |-> pub.pc, result |-> result])

\* The site URL, computed before the failure, returned all the same.
PubFailsKeepsPagesUrl == PubReturn(<<None, Some(PagesUrl(pub.repo_name)), None>>)

\* Lines 94-96: any exception ends the publisher with three empty results.
PubFails == PubReturn(<<None, None, None>>)

\* Line 72: the loop's first turn, or the end of the loop.
EnterLoop ==
    pub' = [pub EXCEPT !.pc = IF Len(pub.files) = 0 THEN "pages" ELSE "get_contents",
                       !.i = 1]

\* Line 72: the next turn of the loop, or its end.
NextFile ==
    pub' = [pub EXCEPT !.pc = IF pub.i < Len(pub.files) THEN "get_contents" ELSE "pages",
                       !.i = @ + 1, !.file_sha = None]

\* The blob id of a file's content: equal contents, equal ids.
BlobSha(content) == content

\* Lines 63-67: the account and the repository are looked up.
GetRepo ==
    /\ pub.pc = "get_repo"
    /\ PubLog("get_repo", pub.repo_name)
    /\ \E o \in LibOutcomes :
        \/ /\ o = "ok"
           /\ pub.repo_name \in DOMAIN github
           /\ EnterLoop
           /\ UNCHANGED pub_history
        \/ /\ o = "GithubException"
           /\ pub' = [pub EXCEPT !.pc = "create_repo"]
           /\ UNCHANGED pub_history
        \/ /\ o = "Exception"
           /\ PubFails
    /\ UNCHANGED << MY_SECRET, github0, parked, request, response, background_tasks, job,
                    notification_payload, ntf, github, notify_calls, timeline >>

\* Lines 68-70: a public repository with an initial commit is created; the
\* provider refuses a name the account already holds.
CreateRepo ==
    /\ pub.pc = "create_repo"
    /\ PubLog("create_repo", pub.repo_name)
    /\ \E o \in LibOutcomes :
        \/ /\ o = "ok"
           /\ pub.repo_name \notin DOMAIN github
           /\ github' = Put(github, pub.repo_name,
                            [files |-> Put(<<>>, ReadmeMd, AutoInitReadme),
                             head |-> 1,
                             tree |-> Put(<<>>, 1, Put(<<>>, ReadmeMd, AutoInitReadme)),
                             pages |-> FALSE])
           /\ EnterLoop
           /\ UNCHANGED pub_history
        \/ /\ o # "ok"
           /\ PubFails
           /\ UNCHANGED github
    /\ UNCHANGED << MY_SECRET, github0, parked, request, response, background_tasks, job,
                    notification_payload, ntf, notify_calls, timeline >>

\* Line 74: the file at the path is looked up on main.
GetContents ==
    /\ pub.pc = "get_contents"
    /\ PubLog("get_contents", pub.files[pub.i][1])
    /\ \E o \in LibOutcomes :
        \/ /\ o = "ok"
           /\ pub.files[pub.i][1] \in DOMAIN github[pub.repo_name].files
           /\ pub' = [pub EXCEPT
                        !.pc = "update_file",
                        !.file_sha =
                            Some(BlobSha(github[pub.repo_name].files[pub.files[pub.i][1]]))]
           /\ UNCHANGED pub_history
        \/ /\ o = "GithubException"
           /\ pub' = [pub EXCEPT !.pc = "create_file"]
           /\ UNCHANGED pub_history
        \/ /\ o = "Exception"
           /\ PubFails
    /\ UNCHANGED << MY_SECRET, github0, parked, request, response, background_tasks, job,
                    notification_payload, ntf, github, notify_calls, timeline >>

\* The commit message passed where the content belongs.
WrittenMessage(entry, commit_message) == commit_message

\* Lines 75 and 78: the content argument of update_file and create_file.
WrittenContent(entry, commit_message) == entry[2]

\* The provider's state after a commit that writes content at path.
Commit(repo, path, content) ==
    [repo EXCEPT !.files = Put(@, path, content),
                 !.head = @ + 1,
                 !.tree = Put(@, repo.head + 1, Put(repo.files, path, content))]

\* Lines 75-76: the file is replaced; the provider takes the update when the
\* version token is that of the file it holds.  A GithubException goes to
\* line 77.
UpdateFile ==
    /\ pub.pc = "update_file"
    /\ PubLog("update_file", pub.files[pub.i][1])
    /\ LET path == pub.files[pub.i][1]
           repo == github[pub.repo_name]
       IN  \E o \in LibOutcomes :
            \/ /\ o = "ok"
               /\ path \in DOMAIN repo.files
               /\ pub.file_sha = Some(BlobSha(repo.files[path]))
               /\ github' = Put(github, pub.repo_name,
                                Commit(repo, path,
                                       WrittenContent(pub.files[pub.i], pub.commit_message)))
               /\ NextFile
               /\ UNCHANGED pub_history
            \/ /\ o = "GithubException"
               /\ pub' = [pub EXCEPT !.pc = "create_file"]
               /\ UNCHANGED << github, pub_history >>
            \/ /\ o = "Exception"
               /\ PubFails
               /\ UNCHANGED github
    /\ UNCHANGED << MY_SECRET, github0, parked, request, response, background_tasks, job,
                    notification_payload, ntf, notify_calls, timeline >>

\* Lines 77-79: the file is created; the provider refuses a path that holds a
\* file.  An exception here is raised inside the handler and leaves the loop.
CreateFile ==
    /\ pub.pc = "create_file"
    /\ PubLog("create_file", pub.files[pub.i][1])
    /\ LET path == pub.files[pub.i][1]
           repo == github[pub.repo_name]
       IN  \E o \in LibOutcomes :
            \/ /\ o = "ok"
               /\ path \notin DOMAIN repo.files
               /\ github' = Put(github, pub.repo_name,
                                Commit(repo, path,
                                       WrittenContent(pub.files[pub.i], pub.commit_message)))
               /\ NextFile
               /\ UNCHANGED pub_history
            \/ /\ o # "ok"
               /\ PubFails
               /\ UNCHANGED github
    /\ UNCHANGED << MY_SECRET, github0, parked, request, response, background_tasks, job,
                    notification_payload, ntf, notify_calls, timeline >>

\* Line 90 reads the body as a JSON object unless the status is 201.
PagesAnswerRead(o) == o.kind = "status" /\ (o.status = 201 \/ o.json)

\* The outcome of the POST as the log keeps it: its kind and its status.
PagesAnswer(o) == <<o.kind, ToString(o.status)>>

\* Lines 81-90: static hosting is requested.  The provider answers 201 when it
\* enables hosting and 409 when hosting is enabled already.
EnablePages ==
    /\ pub.pc = "pages"
    /\ LET repo == github[pub.repo_name] IN
       \E o \in PagesOutcomes :
        /\ PubLog("enable_pages", PagesAnswer(o))
        /\ o.status = 201 => ~repo.pages
        /\ o.status = 409 => repo.pages
        /\ \/ /\ PagesAnswerRead(o)
              /\ pub' = [pub EXCEPT !.pc = "get_branch"]
              /\ github' = Put(github, pub.repo_name, [repo EXCEPT !.pages = TRUE])
              /\ UNCHANGED pub_history
           \/ /\ ~PagesAnswerRead(o)
              /\ PubFails
              /\ UNCHANGED github
    /\ UNCHANGED << MY_SECRET, github0, parked, request, response, background_tasks, job,
                    notification_payload, ntf, notify_calls, timeline >>

\* Lines 92-93: the tip of main is read and the three results are returned.
GetBranch ==
    /\ pub.pc = "get_branch"
    /\ PubLog("get_branch", pub.repo_name)
    /\ \E o \in LibOutcomes :
        \/ /\ o = "ok"
           /\ PubReturn(<< Some(RepoHtmlUrl(pub.repo_name)),
                           Some(PagesUrl(pub.repo_name)),
                           Some(Sha(github[pub.repo_name].head)) >>)
        \/ /\ o # "ok"
           /\ PubFails
    /\ UNCHANGED << MY_SECRET, github0, parked, request, response, background_tasks, job,
                    notification_payload, ntf, github, notify_calls, timeline >>

Publisher ==
    \/ GetRepo
    \/ CreateRepo
    \/ GetContents
    \/ UpdateFile
    \/ CreateFile
    \/ EnablePages
    \/ GetBranch

\* ------------------------------------------- the publisher called in sequence

\* File mappings over the same paths, with the contents of two rounds.
Mappings ==
    { << <<IndexHtml, <<"page 1">> >>, <<ReadmeMd, <<"readme 1">> >>,
         <<LicensePath, MIT_LICENSE_TEXT>>, << <<"data.csv">>, <<"h", "i">> >> >>,
      << <<IndexHtml, <<"page 2">> >>, <<ReadmeMd, <<"readme 2">> >>,
         <<LicensePath, MIT_LICENSE_TEXT>>, << <<"data.csv">>, <<"h">> >> >> }

\* Line 61: create_or_update_repo is called once more, when no call of it is
\* under way, for the same repository and a mapping over the same paths.
PublisherCall ==
    /\ job.pc = "idle"
    /\ pub.pc \in {"idle", "returned"}
    /\ pub.call < MaxCalls
    /\ \E files \in Mappings :
        EnterPublisher(<<"demo-site">>, files, CommitMessage(pub.call + 1, <<"a calculator">>))
    /\ UNCHANGED << MY_SECRET, github0, parked, request, response, background_tasks, job,
                    notification_payload, ntf, github, log, notify_calls, timeline,
                    pub_history >>

\* ---------------------------------------------------------- specifications

Next ==
    \/ handle_task_request
    \/ JobStart
    \/ Generate
    \/ BuildFiles
    \/ DecodeStep
    \/ PushFiles
    \/ Deployed
    \/ NotifyPost
    \/ NotifySleep
    \/ Publisher

\* One request, and the job it starts, against any answers of the services.
Spec == Init /\ [][Next]_vars

LiveRequests ==
    { [r EXCEPT !.attachments = a] :
        r \in {q \in Requests : q.attachments = <<>>},
        a \in UNION {[1..n -> Attachments] : n \in 0..MaxLiveAttachments} }

InitLive ==
    /\ MY_SECRET \in {None, Some("s3cret")}
    /\ request \in LiveRequests
    /\ response = None
    /\ background_tasks = <<>>
    /\ job = JobIdle
    /\ notification_payload = <<>>
    /\ pub = PubIdle
    /\ parked = PubIdle
    /\ ntf = NtfIdle
    /\ github \in InitialAccounts
    /\ github0 = github
    /\ log = <<>>
    /\ notify_calls = <<>>
    /\ timeline = <<>>
    /\ pub_history = <<>>

\* One request and its job, every step of the handler and of the job that can
\* be taken being taken in the end: the server runs the handler and then the
\* task it added, the task runs its statements one after the other, and every
\* call of a service returns or raises.
SpecLive == InitLive /\ [][Next]_vars /\ WF_vars(Next)

InitPublish ==
    /\ MY_SECRET = None
    /\ request = [email |-> <<"student@example.com">>, secret |-> "guess",
                  task |-> <<"demo-site">>, round |-> 1, nonce |-> <<"nonce-1">>,
                  brief |-> <<"a calculator">>,
                  evaluation_url |-> <<"https://grader.example/notify">>,
                  attachments |-> <<>>]
    /\ response = None
    /\ background_tasks = <<>>
    /\ job = JobIdle
    /\ notification_payload = <<>>
    /\ pub = PubIdle
    /\ parked = PubIdle
    /\ ntf = NtfIdle
    /\ github \in InitialAccounts
    /\ github0 = github
    /\ log = <<>>
    /\ notify_calls = <<>>
    /\ timeline = <<>>
    /\ pub_history = <<>>

NextPublish ==
    \/ PublisherCall
    \/ Publisher

\* create_or_update_repo called MaxCalls times in sequence, with no job running.
SpecPublish == InitPublish /\ [][NextPublish]_vars

\* --------------------------------------- two jobs that name one repository

\* The file mapping of the n-th of two jobs for the same task.
RaceFiles(n) ==
    << <<IndexHtml, <<"page ", ToString(n)>> >>,
       << <<"data.csv">>, <<"rows ", ToString(n)>> >> >>

\* The publisher as the n-th job has just called it (line 199).
RacePub(n) ==
    [pc |-> "get_repo", call |-> n, repo_name |-> <<"demo-site">>,
     files |-> RaceFiles(n), commit_message |-> CommitMessage(n, <<"a calculator">>),
     i |-> 1, file_sha |-> None, result |-> <<None, None, None>>]

\* Two requests for the same task were accepted; the server runs their tasks
\* in two threads, and both have called create_or_update_repo.
InitRace ==
    /\ MY_SECRET = Some("s3cret")
    /\ request \in {r \in Requests : r.attachments = <<>> /\ r.secret = "s3cret"}
    /\ response = None
    /\ background_tasks = <<>>
    /\ job = JobIdle
    /\ notification_payload = <<>>
    /\ pub = RacePub(1)
    /\ parked = RacePub(2)
    /\ ntf = NtfIdle
    /\ github \in InitialAccounts
    /\ github0 = github
    /\ log = <<>>
    /\ notify_calls = <<>>
    /\ timeline = <<>>
    /\ pub_history = <<>>

\* The other thread runs: no lock keeps a thread from being suspended between
\* two calls of the provider.
Switch ==
    /\ parked.pc \notin {"idle", "returned"}
    /\ pub' = parked
    /\ parked' = pub
    /\ UNCHANGED << MY_SECRET, github0, request, response, background_tasks, job,
                    notification_payload, ntf, github, log, notify_calls, timeline,
                    pub_history >>

NextRace ==
    \/ Switch
    \/ Publisher

\* create_or_update_repo run by two threads for the same repository, under
\* every interleaving of their calls of the provider.
SpecRace == InitRace /\ [][NextRace]_vars

\* ------------------------------------- the job with a publisher of any results

\* What one of the three values line 199 unpacks can be: None, an empty
\* string, or the text the publisher computes.
ResultTriples ==
    {<<u, p, c>> : u \in {None, Some(<<>>), Some(RepoHtmlUrl(<<"demo-site">>))},
                   p \in {None, Some(<<>>), Some(PagesUrl(<<"demo-site">>))},
                   c \in {None, Some(<<>>), Some(Sha(1))}}

\* Line 199: the call of create_or_update_repo returns three values, whatever
\* they are.
PublisherReturns ==
    /\ job.pc = "publishing"
    /\ pub.pc = "get_repo"
    /\ \E result \in ResultTriples : PubReturn(result)
    /\ UNCHANGED << MY_SECRET, github0, parked, request, response, background_tasks, job,
                    notification_payload, ntf, github, log, notify_calls, timeline >>

NextOrchestrate ==
    \/ handle_task_request
    \/ JobStart
    \/ Generate
    \/ BuildFiles
    \/ DecodeStep
    \/ PushFiles
    \/ PublisherReturns
    \/ Deployed
    \/ NotifyPost
    \/ NotifySleep

\* One request and its job, the publisher taken as a function that returns any
\* three values.
SpecOrchestrate == InitLive /\ [][NextOrchestrate]_vars

\* ------------------------------------------- the generation step on its own

Div == <<"<", "d", "i", "v", ">", "c", "a", "l", "c", "<", "/", "d", "i", "v", ">">>

\* What the texts of the generation service are put together from.
Pieces == {<<" ">>, <<"U+10">>, <<"U+96">>, Fence, FenceHtml, Div}

\* The texts made of at most n pieces.
RECURSIVE Concats(_)
Concats(n) ==
    IF n = 0 THEN {<<>>}
    ELSE LET shorter == Concats(n - 1) IN
         shorter \cup {t \o p : t \in shorter, p \in Pieces}

Texts == Concats(MaxPieces)

\* The generation service answering 200 with any of the texts, or failing.
CleanOutcomes ==
    {[kind |-> "status", status |-> 200, content |-> Some(t)] : t \in Texts}
    \cup {[kind |-> "status", status |-> 500, content |-> None]}

InitClean ==
    /\ MY_SECRET = Some("s3cret")
    /\ request \in {r \in Requests : r.attachments = <<>>}
    /\ response = None
    /\ background_tasks = <<>>
    /\ job = JobIdle
    /\ notification_payload = <<>>
    /\ pub = PubIdle
    /\ parked = PubIdle
    /\ ntf = NtfIdle
    /\ github = <<>>
    /\ github0 = github
    /\ log = <<>>
    /\ notify_calls = <<>>
    /\ timeline = <<>>
    /\ pub_history = <<>>

GenerateText == GenerateFrom(CleanOutcomes)

NextClean ==
    \/ handle_task_request
    \/ JobStart
    \/ GenerateText

\* One request up to the end of its generation step, the service answering
\* with any text of at most MaxPieces pieces.
SpecClean == InitClean /\ [][NextClean]_vars

\* ------------------------------------------------------------------ claims

\* The POSTs made to the callback URL, in order.
Deliveries == SelectSeq(timeline, LAMBDA e : e.ev = "post")

\* The POSTs and sleeps of the c-th call of notify_grader, in order.
EventsOf(c) == SelectSeq(timeline, LAMBDA e : e.call = c)

PostsOf(c) == SelectSeq(timeline, LAMBDA e : e.call = c /\ e.ev = "post")

\* The c-th call of notify_grader has ended.
CallOver(c) == c <= Len(notify_calls) /\ ~(ntf.call = c /\ ntf.pc \in {"post", "sleep"})

RECURSIVE Pow2(_)
Pow2(n) == IF n = 0 THEN 1 ELSE 2 * Pow2(n - 1)

\* C1: a job that passed the secret check calls notify_grader at most once,
\* whatever fails.
C1_AtMostOneNotifyCall == Len(notify_calls) <= 1

SuccessKeys == {"repo_url", "commit_sha", "pages_url"}

\* C2: every payload handed to a delivery attempt holds the job's email, task,
\* round and nonce, and either all three success fields and no error, or an
\* error and no success field.
C2_OneAugmentation ==
    \A i \in 1..Len(Deliveries) :
        LET p == Deliveries[i].payload
            r == background_tasks[1]
        IN  /\ {"email", "task", "round", "nonce"} \subseteq DictKeys(p)
            /\ DictGet(p, "email") = r.email
            /\ DictGet(p, "task") = r.task
            /\ DictGet(p, "round") = r.round
            /\ DictGet(p, "nonce") = r.nonce
            /\ \/ SuccessKeys \subseteq DictKeys(p) /\ "error" \notin DictKeys(p)
               \/ "error" \in DictKeys(p) /\ SuccessKeys \cap DictKeys(p) = {}

\* Every attempt of the c-th call failed (a status other than 200, or a
\* RequestException).
AllFailed(c) == \A k \in 1..Len(PostsOf(c)) : PostsOf(c)[k].result = "failed"

\* C3: a call of notify_grader all of whose attempts fail makes exactly
\* MaxAttempts = 4 attempts, sleeps 1, 2 and 4 between them, makes no attempt
\* after the fourth, and returns to the job without raising.
C3_FourAttemptsThenStop ==
    \A c \in 1..Len(notify_calls) :
        LET E == EventsOf(c) IN
        /\ AllFailed(c) => Len(PostsOf(c)) <= 4
        /\ (CallOver(c) /\ AllFailed(c)) =>
              /\ Len(PostsOf(c)) = 4
              /\ Len(E) >= 7
              /\ \A k \in 1..4 : E[2 * k - 1].ev = "post"
              /\ \A k \in 1..3 : E[2 * k].ev = "sleep" /\ E[2 * k].delay = Pow2(k - 1)
              /\ c = Len(notify_calls)
              /\ job.pc = "done"

C3_Witness ==
    \E c \in 1..Len(notify_calls) :
        CallOver(c) /\ AllFailed(c) /\ Len(PostsOf(c)) = 4 /\ job.pc = "done"

\* C4: in a call of notify_grader the attempt answered 200 is the last event
\* of the call (no attempt and no sleep follows it) and every attempt before it
\* failed; an attempt that ends in a status other than 200 or in a
\* RequestException counts as failed, and is followed by a sleep and, while
\* fewer than 4 attempts were made, by another attempt.
C4_StopAtFirst200 ==
    /\ \A c \in 1..Len(notify_calls) :
          LET E == EventsOf(c)
              P == PostsOf(c)
          IN  /\ \A n \in 1..Len(E) : E[n].result = "delivered" => n = Len(E)
              /\ \A k \in 1..Len(P) :
                    /\ (P[k].result = "delivered" =>
                           /\ Len(P) = k
                           /\ \A j \in 1..(k - 1) : P[j].result = "failed"
                           /\ CallOver(c))
                    /\ (P[k].result = "failed" /\ k < 4 /\ CallOver(c)) => Len(P) > k
    /\ (ntf.last.kind = "status" /\ ntf.last.status = 200) =>
          /\ ntf.pc = "idle"
          /\ timeline[Len(timeline)].result = "delivered"
    /\ ((ntf.last.kind = "status" /\ ntf.last.status \notin {0, 200})
          \/ ntf.last.kind = "RequestException") =>
          /\ ntf.pc = "sleep"
          /\ timeline[Len(timeline)].result = "failed"
    /\ ntf.pc = "sleep" => timeline[Len(timeline)].ev = "post"

C4_Witness ==
    \E c \in 1..Len(notify_calls) :
        /\ CallOver(c)
        /\ Len(PostsOf(c)) = 3
        /\ PostsOf(c)[3].result = "delivered"
        /\ Len(EventsOf(c)) = 5

\* The job's generation step failed: the service answered with a status other
\* than 200, or without usable content, or the call raised.
GenerationStepFailed ==
    \E i \in 1..Len(log) :
        log[i].op = "generate" /\ log[i].arg # <<"status", "200", "content">>

ErrorPayload(p, prefix) ==
    /\ "error" \in DictKeys(p)
    /\ StartsWith(DictGet(p, "error"), prefix)
    /\ SuccessKeys \cap DictKeys(p) = {}

\* C5: when the generation step of a job fails, no repository operation of any
\* kind is made, and the notification payload carries an error that starts
\* with "LLM generation failed:" and no success field.
C5_GenerationFailure ==
    GenerationStepFailed =>
        /\ \A i \in 1..Len(log) : log[i].op = "generate"
        /\ pub.call = 0
        /\ github = github0
        /\ Len(notify_calls) = 1
        /\ ErrorPayload(notify_calls[1], <<"LLM generation failed:">>)
        /\ \A i \in 1..Len(Deliveries) :
              ErrorPayload(Deliveries[i].payload, <<"LLM generation failed:">>)

C5_Witness ==
    /\ \E i \in 1..Len(log) :
          log[i].op = "generate" /\ log[i].arg = <<"status", "202", "content">>
    /\ Len(Deliveries) = 2
    /\ job.pc = "done"

\* C6: a request whose secret is not the configured one (no configured secret
\* included) schedules no background job, causes no generation, repository or
\* notification call, and is answered with status "error"; a job is scheduled
\* only for a request whose secret is the configured one.
C6_SecretGate ==
    /\ Some(request.secret) # MY_SECRET =>
          /\ background_tasks = <<>>
          /\ job.pc = "idle"
          /\ log = <<>>
          /\ notify_calls = <<>>
          /\ timeline = <<>>
          /\ github = github0
          /\ response # None => DictGet(response[1], "status") = "error"
    /\ background_tasks # <<>> =>
          /\ MY_SECRET = Some(request.secret)
          /\ background_tasks = <<request>>
          /\ DictGet(response[1], "status") # "error"

C6_Witness ==
    /\ MY_SECRET = None
    /\ response # None
    /\ DictGet(response[1], "status") = "error"

AllPresent(result) == \A k \in 1..3 : Truthy(result[k])

AllEmpty(result) == \A k \in 1..3 : result[k] = None

\* C7: every return of create_or_update_repo is a return of results, never an
\* exception: three present results from its last step, or three empty ones
\* from the step that failed; and on the empty result the job calls
\* notify_grader with an error that starts with "Deployment failed:".
C7_PublisherBoundary ==
    /\ pub.pc \in {"idle", "get_repo", "create_repo", "get_contents", "update_file",
                   "create_file", "pages", "get_branch", "returned"}
    /\ \A n \in 1..Len(pub_history) :
          \/ AllPresent(pub_history[n].result) /\ pub_history[n].at = "get_branch"
          \/ AllEmpty(pub_history[n].result)
    /\ pub.pc = "returned" => pub.result = pub_history[Len(pub_history)].result
    /\ (pub_history # <<>> /\ pub.pc = "idle") =>
          /\ job.pc \in {"notifying", "done", "crashed"}
          /\ AllEmpty(pub_history[1].result) =>
                /\ ErrorPayload(notify_calls[1], <<"Deployment failed:">>)
                /\ Len(notify_calls) = 1

C7_Witness ==
    /\ pub_history # <<>>
    /\ pub_history[1].at = "create_file"
    /\ AllEmpty(pub_history[1].result)
    /\ Len(Deliveries) >= 1
    /\ ErrorPayload(Deliveries[1].payload, <<"Deployment failed:">>)

\* The calls of one kind the c-th call of the publisher made for a path or name.
OpsOf(c, op, arg) ==
    SelectSeq(log, LAMBDA e : e.call = c /\ e.op = op /\ e.arg = arg)

WellFormedB64(s) ==
    /\ Len(s) % 4 = 0
    /\ \A n \in 1..Len(s) :
          \/ IsB64Char(s[n])
          \/ /\ s[n] = "="
             /\ n >= Len(s) - 1
             /\ \A m \in n..Len(s) : s[m] = "="

Malformed(u) ==
    \/ FirstComma(u) = 0
    \/ ~WellFormedB64(SubSeq(u, FirstComma(u) + 1, Len(u)))
    \/ utf8decode(b64decode(SubSeq(u, FirstComma(u) + 1, Len(u)))[1]) = None

FixedPaths == {IndexHtml, ReadmeMd, LicensePath}

\* The job has gone through the attachments and called the publisher.
AttachmentsDone == job.pc \in {"publishing", "notifying", "done", "crashed"} /\ pub.call >= 1

\* C9: an attachment with a malformed payload yields no content and is left
\* out of the file set, the other attachments are still gone through, and the
\* publisher is still called with index.html, README.md and LICENSE.
C9_MalformedOmitted ==
    AttachmentsDone =>
        LET atts == background_tasks[1].attachments IN
        /\ job.i = Len(atts) + 1
        /\ FixedPaths \subseteq DictKeys(job.files_to_commit)
        /\ pub.call = 1
        /\ \A n \in 1..Len(atts) :
              Malformed(atts[n].url) =>
                  /\ ~Truthy(decode_attachment(atts[n]))
                  /\ (/\ atts[n].name \notin FixedPaths
                      /\ \A m \in 1..Len(atts) :
                            atts[m].name = atts[n].name => Malformed(atts[m].url))
                       => atts[n].name \notin DictKeys(job.files_to_commit)

\* C10: for every attachment that decodes (to the empty text included) the
\* mapping passed to create_or_update_repo has the decoded text at the
\* attachment's name.
C10_DecodedAttachmentsPublished ==
    AttachmentsDone =>
        LET atts == background_tasks[1].attachments IN
        \A n \in 1..Len(atts) :
            decode_attachment(atts[n]) # None =>
                /\ atts[n].name \in DictKeys(pub.files)
                /\ DictGet(pub.files, atts[n].name) = decode_attachment(atts[n])[1]

\* t[i..j] is t without its leading and trailing whitespace.
IsStripOf(t, i, j) ==
    /\ \A k \in 1..(i - 1) : t[k] \in Whitespace
    /\ \A k \in (j + 1)..Len(t) : t[k] \in Whitespace
    /\ i <= j => t[i] \notin Whitespace /\ t[j] \notin Whitespace

\* rest is s without the prefix p when s begins with p, else s itself.
CutFront(s, p, rest) ==
    IF \E tail \in {SubSeq(s, n, Len(s)) : n \in 1..(Len(s) + 1)} : s = p \o tail
    THEN s = p \o rest
    ELSE rest = s

\* rest is s without the suffix p when s ends with p, else s itself.
CutBack(s, p, rest) ==
    IF \E head \in {SubSeq(s, 1, n) : n \in 0..Len(s)} : s = head \o p
    THEN s = rest \o p
    ELSE rest = s

\* The parts of a text: what a cut can leave of it.
Parts(t) == {SubSeq(t, i, j) : i \in 1..(Len(t) + 1), j \in 0..Len(t)}

\* C11: the generated artifact is the text of the generation service with its
\* leading and trailing whitespace removed, then one leading fence-with-html
\* removed if present, then one trailing fence removed if present, and nothing
\* more; the fenced <div>calc</div> yields exactly <div>calc</div>.
C11_FencesStripped ==
    job.pc = "build" =>
        LET t == job.content[1]
            g == job.generated_code[1]
        IN  /\ \E i \in 1..(Len(t) + 1), j \in 0..Len(t) :
                  /\ IsStripOf(t, i, j)
                  /\ \E opened \in Parts(SubSeq(t, i, j)) :
                        /\ CutFront(SubSeq(t, i, j), FenceHtml, opened)
                        /\ CutBack(opened, Fence, g)
            /\ t = FenceHtml \o Div \o Fence => g = Div

C11_Witness ==
    /\ job.pc = "build"
    /\ job.content = Some(FenceHtml \o Div \o Fence)
    /\ job.generated_code = Some(Div)

\* The job is over: it has called notify_grader, the call is over, and the job
\* has returned (or an exception of the call has left it).
JobOver ==
    /\ job.pc \in {"done", "crashed"}
    /\ ntf.pc = "idle"
    /\ notify_calls # <<>>

\* C12: a job that has started ends: after a success notification, after an
\* error notification, or after the notifier has given up; it does not go on
\* for ever.
C12_JobEnds == (job.pc # "idle") ~> JobOver

C12_Witness ==
    /\ JobOver
    /\ job.pc = "done"
    /\ Len(PostsOf(Len(notify_calls))) = MaxAttempts
    /\ timeline[Len(timeline)].ev = "sleep"
    /\ SuccessKeys \subseteq DictKeys(notify_calls[Len(notify_calls)])

\* C13: in the loop over the files, create_file is called for a path only when
\* the lookup of that path reported it absent: never for a path whose lookup
\* succeeded, which is written by update_file only.
C13_CreateOnlyWhenAbsent ==
    /\ pub.pc = "create_file" => pub.file_sha = None
    /\ \A i \in 1..Len(log) :
          log[i].op = "create_file" =>
              /\ i > 1
              /\ log[i - 1].op = "get_contents"
              /\ log[i - 1].arg = log[i].arg
              /\ log[i - 1].call = log[i].call

C15_WaitOnlyBetweenAttempts ==
    \A c \in 1..Len(notify_calls) :
        LET E == EventsOf(c) IN
        \A n \in 1..Len(E) :
            E[n].ev = "sleep" =>
                \/ n < Len(E) /\ E[n + 1].ev = "post"
                \/ n = Len(E) /\ ntf.call = c /\ ntf.pc = "post"

\* C16: once the files are written, no answer of the provider to the request
\* that enables static hosting, whatever its status, makes the publisher fail:
\* the publisher goes on to read the tip of main.
C16_PagesAnswerNeverFails ==
    \A i \in 1..Len(log) :
        (log[i].op = "enable_pages" /\ log[i].arg[1] = "status") =>
            /\ \A n \in 1..Len(pub_history) :
                  pub_history[n].call = log[i].call => pub_history[n].at = "get_branch"
            /\ i = Len(log) => pub.pc = "get_branch"

\* C17: whatever the attachments and their names, the mapping passed to the
\* publisher holds the generated artifact at index.html, the templated summary
\* at README.md and the license text at LICENSE.
C17_FixedFilesKept ==
    AttachmentsDone =>
        /\ FixedPaths \subseteq DictKeys(pub.files)
        /\ DictGet(pub.files, IndexHtml) = job.generated_code[1]
        /\ DictGet(pub.files, ReadmeMd) =
               ReadmeContent(background_tasks[1].task, background_tasks[1].brief)
        /\ DictGet(pub.files, LicensePath) = MIT_LICENSE_TEXT

\* C18: under every interleaving of two jobs that name the same repository,
\* the commit id a job's publisher returns, which the job reports in its
\* success notification, is that of a commit of main at which every path of
\* the job's mapping holds the job's content.
C18_ReportedCommitHoldsOwnFiles ==
    \A n \in 1..Len(pub_history) :
        LET h == pub_history[n] IN
        AllPresent(h.result) =>
            \E k \in DOMAIN github[h.repo_name].tree :
                /\ Sha(k) = h.result[3][1]
                /\ \A path \in DictKeys(h.files) :
                      /\ path \in DOMAIN github[h.repo_name].tree[k]
                      /\ github[h.repo_name].tree[k][path] = DictGet(h.files, path)
====
